---- MODULE Spec2Model ----
(***************************************************************************)
(* Moodify: the weekly playlist generator (main.py), its catalog client    *)
(* (src/api/spotify_api.py), its data processor (src/data/                  *)
(* data_processor.py) and its history store (data/playlist_data.py).       *)
(*                                                                         *)
(* The specifications share the operators below:                           *)
(*   Spec           a run of generate_playlist, after earlier runs         *)
(*   SpecDiscovery  one call of SpotifyAPI.get_discovery_recommendations   *)
(*   SpecHistory    calls of PlaylistTracker.add_playlist on one file      *)
(*   SpecSeeds      one call of select_seed_tracks_and_artists             *)
(*   SpecReads      one call of one read method of SpotifyAPI              *)
(*   SpecScore      the score of one discovery candidate                   *)
(*   SpecModes      one run made twice, live and with --dry-run            *)
(*   SpecConcurrent two interleaved calls of add_playlist on one file      *)
(*                                                                         *)
(* Floating-point values are modelled as exact rationals (scaled integers);*)
(* strings as model values; a track id is a natural number.                *)
(***************************************************************************)
EXTENDS Integers, Sequences, FiniteSets, TLC

VARIABLES
    pc,                 \* position of the running call
    args,               \* parsed command line of the current run
    clock,              \* the wall clock datetime.now() reads
    history_file,       \* data/playlist_history.json
    history_before,     \* the file as it was when the current run started
    remote,             \* playlists held by the remote catalog, in creation order
    trace,              \* mutating calls the current run has made, in order
    top_tracks, recent_tracks,
    seed_tracks, seed_artists,
    recommendations,
    previous_track_ids,
    filtered_tracks,
    playlist_tracks,
    playlist_name,
    playlist,           \* what create_playlist returned
    batch_i,            \* add_tracks_to_playlist: offset of the next chunk
    result,             \* what generate_playlist returned
    limit,              \* get_discovery_recommendations: its limit argument
    exclude_tracks,
    recent_tracks_list,
    seed_audio_features,
    gathered,           \* the list "recommendations" inside the discovery call
    unique_recommendations,
    sorted_recommendations,
    diverse_recommendations,
    added,              \* SpecHistory: the entry the last add_playlist built
    completed,          \* SpecHistory: number of add_playlist calls completed
    email,              \* what send_email did in the current run
    seed_limits,        \* max_seed_tracks and max_seed_artists of a selection
    method,             \* SpecReads: the read method of SpotifyAPI called
    seed_genres,
    sent_seeds,         \* the seeds get_recommendations passed to the catalog
    remote_failed,      \* whether the remote call of the method raised
    returned,           \* what the method returned
    candidate,          \* SpecScore: the track scored,
    candidate_features, \*   its audio features, None when not fetched,
    final_score,        \*   and 500 * n * its score for n seed vectors
    twin,               \* SpecModes: the same run with the dry-run flag set
    exit_status,        \* exit status of the process, <<>> while it runs
    callers,            \* SpecConcurrent: the add_playlist calls under way
    stages_entered,     \* the later stages the discovery call has entered
    fetched             \* its answers for the saved tracks and the playlists

runVars == <<args, history_before, remote, trace, top_tracks, recent_tracks,
             recommendations, previous_track_ids, filtered_tracks, playlist_tracks,
             playlist_name, playlist, batch_i, result>>
seedVars == <<seed_tracks, seed_artists>>
discVars == <<limit, exclude_tracks, recent_tracks_list, seed_audio_features,
              gathered, unique_recommendations, sorted_recommendations,
              diverse_recommendations>>
histVars == <<added, completed>>
auxVars == <<twin, exit_status, callers, stages_entered, fetched>>
fnVars == <<seed_limits, method, seed_genres, sent_seeds,
            remote_failed, returned, candidate, candidate_features, final_score,
            auxVars>>
vars == <<pc, clock, history_file, runVars, seedVars, discVars, histVars, fnVars, email>>

(***************************************************************************)
(* Bounds of the model.                                                    *)
(***************************************************************************)
MaxId == 3          \* track ids are 1..MaxId
MaxPrior == 2       \* playlists recorded by earlier runs
MaxClock == 3       \* the clock reads 0..MaxClock
TicksPerWeek == 3   \* clock readings that fall in one week
MaxTracks == 2      \* --tracks is 1..MaxTracks, or BulkLen
MaxHist == 2        \* SpecHistory: add_playlist calls in one behaviour

TrackIds == 1..MaxId
Clock == 0..MaxClock

None == "None"
\* the answer of a remote call: a value, or the call raises
Ok(v) == [ok |-> TRUE, v |-> v]
Fail == [ok |-> FALSE, v |-> <<>>]
\* where a feature vector is None
NoVector == <<>>

(***************************************************************************)
(* Sequence helpers (Python list operations).                              *)
(***************************************************************************)
Min(a, b) == IF a <= b THEN a ELSE b
Max(a, b) == IF a >= b THEN a ELSE b
Abs(x) == IF x >= 0 THEN x ELSE -x

\* s[:n] for n >= 0
Take(s, n) == SubSeq(s, 1, Min(n, Len(s)))
\* s[a:b] for 0 <= a <= b
Slice(s, a, b) == SubSeq(s, a + 1, Min(b, Len(s)))
Range(s) == {s[i] : i \in 1..Len(s)}
Ids(s) == [i \in 1..Len(s) |-> s[i].id]
IdSet(s) == {s[i].id : i \in 1..Len(s)}
NoDuplicates(s) == \A i, j \in 1..Len(s) : i # j => s[i] # s[j]

\* all sequences over S of length at most n
SeqsUpTo(S, n) == UNION {[1..k -> S] : k \in 0..n}

\* the elements of s at the positions in keep, in order
KeepPositions(s, keep) ==
    LET indexed == [i \in 1..Len(s) |-> <<i, s[i]>>]
        kept == SelectSeq(indexed, LAMBDA p : p[1] \in keep)
    IN [i \in 1..Len(kept) |-> kept[i][2]]

RECURSIVE Concat(_)
Concat(ss) == IF ss = <<>> THEN <<>> ELSE Head(ss) \o Concat(Tail(ss))

(***************************************************************************)
(* The history store: PlaylistTracker (data/playlist_data.py).             *)
(* The file is missing, holds a JSON list ("valid"), or holds text that    *)
(* does not parse ("corrupt": a write that stopped after open(.., 'w')     *)
(* truncated the file).                                                    *)
(***************************************************************************)
MissingFile == [state |-> "missing", data |-> <<>>]
ValidFile(h) == [state |-> "valid", data |-> h]
CorruptFile == [state |-> "corrupt", data |-> <<>>]

\* _read_history: json.load, or [] on JSONDecodeError / FileNotFoundError
_read_history(file) == IF file.state = "valid" THEN file.data ELSE <<>>

\* _write_history: every exception is caught and logged.  w is what the file
\* system does: "ok", "open_fails" (nothing written), "dump_fails" (the file
\* was truncated by open and json.dump raised).
WriteOutcomes == {"ok", "open_fails", "dump_fails"}
_write_history(file, history, w) ==
    CASE w = "ok" -> ValidFile(history)
      [] w = "open_fails" -> file
      [] w = "dump_fails" -> CorruptFile

\* the entry add_playlist builds; metadata is stored only when truthy
playlist_entry(playlist_id, name, track_ids, metadata, now) ==
    [id |-> playlist_id, name |-> name, created_at |-> now,
     track_count |-> Len(track_ids), tracks |-> track_ids,
     metadata |-> metadata]

add_playlist(file, playlist_id, name, track_ids, metadata, now, w) ==
    _write_history(file,
        Append(_read_history(file),
               playlist_entry(playlist_id, name, track_ids, metadata, now)),
        w)

\* sorted(history, key=created_at, reverse=True): Python's sort is stable, and
\* with reverse=True entries of equal key keep their original order.
RECURSIVE InsertByCreatedAtDesc(_, _)
InsertByCreatedAtDesc(s, x) ==
    IF s = <<>> THEN <<x>>
    ELSE IF Head(s).created_at >= x.created_at
         THEN <<Head(s)>> \o InsertByCreatedAtDesc(Tail(s), x)
         ELSE <<x>> \o s

RECURSIVE SortByCreatedAtDesc(_)
SortByCreatedAtDesc(h) ==
    IF h = <<>> THEN <<>>
    ELSE InsertByCreatedAtDesc(SortByCreatedAtDesc(SubSeq(h, 1, Len(h) - 1)), h[Len(h)])

get_recent_playlists(file, count) ==
    Take(SortByCreatedAtDesc(_read_history(file)), count)

\* get_recent_track_ids: list(set(..)) of the tracks of the `weeks` most
\* recent playlists; main.py turns the list into a set again.
get_recent_track_ids(file, weeks) ==
    LET recent_playlists == get_recent_playlists(file, weeks)
    IN UNION {Range(recent_playlists[i].tracks) : i \in 1..Len(recent_playlists)}

(***************************************************************************)
(* Tracks.  A track object carries an id, a popularity (NoPop when the     *)
(* key is absent) and the ids of its credited artists.  Its URI is         *)
(* "spotify:track:<id>".                                                   *)
(***************************************************************************)
NoPop == -1
ArtistsOf(i) == IF i % 3 = 0 THEN <<1, 2>> ELSE <<i>>
Track(i, p) == [id |-> i, popularity |-> p, artists |-> ArtistsOf(i)]
Uri(t) == <<"spotify:track", t.id>>
UriId(u) == u[2]
\* track.get('popularity', default)
Popularity(t, default) == IF t.popularity = NoPop THEN default ELSE t.popularity

\* first occurrences of the values of s, in order (dict insertion order)
FirstOccurrences(s) ==
    KeepPositions(s, {i \in 1..Len(s) : \A j \in 1..(i - 1) : s[j] # s[i]})

\* sorted(s, key=k, reverse=True): stable, equal keys keep their order
RECURSIVE InsertDesc(_, _, _)
InsertDesc(s, x, k) ==
    IF s = <<>> THEN <<x>>
    ELSE IF k[Head(s)] >= k[x]
         THEN <<Head(s)>> \o InsertDesc(Tail(s), x, k)
         ELSE <<x>> \o s

RECURSIVE SortDesc(_, _)
SortDesc(s, k) ==
    IF s = <<>> THEN <<>>
    ELSE InsertDesc(SortDesc(SubSeq(s, 1, Len(s) - 1), k), s[Len(s)], k)

RECURSIVE SumSeq(_)
SumSeq(s) == IF s = <<>> THEN 0 ELSE Head(s) + SumSeq(Tail(s))

(***************************************************************************)
(* DataProcessor (src/data/data_processor.py).                             *)
(***************************************************************************)
TrackWeight_recent_unhalved(id, top, recent) ==
    SumSeq([i \in 1..Len(top) |->
               IF top[i].id = id THEN Max(Len(recent), 1) * (Len(top) - (i - 1)) ELSE 0])
    + SumSeq([i \in 1..Len(recent) |->
               IF recent[i].id = id THEN Max(Len(top), 1) * (Len(recent) - (i - 1)) ELSE 0])
TrackWeight_by_rank(id, top, recent) ==
    SumSeq([i \in 1..Len(top) |-> IF top[i].id = id THEN 2 * Max(Len(recent), 1) * i ELSE 0])
    + SumSeq([i \in 1..Len(recent) |-> IF recent[i].id = id THEN Max(Len(top), 1) * i ELSE 0])
\* The accumulated weight of a track id, times 2*N*M so that it is an integer:
\* a top track at 0-based rank i adds (N-i)/N, a recent one 0.5*(M-i)/M.
TrackWeight(id, top, recent) ==
    LET N == Len(top)
        M == Len(recent)
        N1 == Max(N, 1)
        M1 == Max(M, 1)
    IN SumSeq([i \in 1..N |-> IF top[i].id = id THEN 2 * M1 * (N - (i - 1)) ELSE 0])
       + SumSeq([i \in 1..M |-> IF recent[i].id = id THEN N1 * (M - (i - 1)) ELSE 0])

SeedTrackIds_top_only(top, recent, max_seed_tracks) ==
    Take(FirstOccurrences(Ids(top)), max_seed_tracks)
SeedTrackIds(top, recent, max_seed_tracks) ==
    LET keys == FirstOccurrences(Ids(top \o recent))
        weighted_tracks == [id \in Range(keys) |-> TrackWeight(id, top, recent)]
    IN Take(SortDesc(keys, weighted_tracks), max_seed_tracks)

\* every artist credit of the tracks of s, in order
ArtistCredits(s) == Concat([i \in 1..Len(s) |-> s[i].artists])

SeedArtistIds_no_diversity(top, recent, seed_track_ids, max_seed_artists) ==
    LET credits == ArtistCredits(top \o recent)
        keys == FirstOccurrences(credits)
        artist_weights ==
            [a \in Range(keys) |-> Cardinality({i \in 1..Len(credits) : credits[i] = a})]
    IN Take(SortDesc(keys, artist_weights), max_seed_artists)
SeedArtistIds(top, recent, seed_track_ids, max_seed_artists) ==
    LET all == top \o recent
        credits == ArtistCredits(all)
        seed_track_artists ==
            UNION {Range(all[i].artists) : i \in {j \in 1..Len(all) : all[j].id \in Range(seed_track_ids)}}
        keys == SelectSeq(FirstOccurrences(credits), LAMBDA a : a \notin seed_track_artists)
        artist_weights ==
            [a \in Range(keys) |-> Cardinality({i \in 1..Len(credits) : credits[i] = a})]
    IN Take(SortDesc(keys, artist_weights), max_seed_artists)

select_seed_tracks_and_artists(top, recent, max_seed_tracks, max_seed_artists) ==
    LET seed_track_ids == SeedTrackIds(top, recent, max_seed_tracks)
    IN <<seed_track_ids, SeedArtistIds(top, recent, seed_track_ids, max_seed_artists)>>

\* filter_tracks: drop the excluded ids, then keep the first track of each id
UniqueById(s) ==
    KeepPositions(s, {i \in 1..Len(s) : \A j \in 1..(i - 1) : s[j].id # s[i].id})

filter_tracks(tracks, exclude_track_ids) ==
    UniqueById(SelectSeq(tracks, LAMBDA t : t.id \notin exclude_track_ids))

(***************************************************************************)
(* SpotifyAPI.get_discovery_recommendations (src/api/spotify_api.py).      *)
(* Each operator is one stretch of the method; the catalog's answers are   *)
(* its arguments.  An audio-feature value is a percentage 0..100.          *)
(***************************************************************************)
\* lines 227-231: the ids of the recently played tracks
ExcludeRecent(recent_plays) == IdSet(recent_plays)

\* lines 233-239: saved tracks, skipped when the call raises
ExcludeSaved(exclude, saved) ==
    IF saved.ok THEN exclude \cup Range(saved.v) ELSE exclude

\* lines 242-252: the items of the user's own playlists; a playlist whose
\* items cannot be fetched is skipped
ExcludePlaylists_stop_at_failure(exclude, playlists) ==
    exclude \cup UNION {Range(playlists[i].items.v) :
                          i \in {j \in 1..Len(playlists) :
                                    /\ playlists[j].own
                                    /\ \A k \in 1..j : playlists[k].items.ok}}
ExcludePlaylists(exclude, playlists) ==
    exclude \cup UNION {Range(playlists[i].items.v) :
                          i \in {j \in 1..Len(playlists) :
                                    playlists[j].own /\ playlists[j].items.ok}}

\* lines 258-273: the seed tracks' feature vectors that are not None
SeedAudioFeatures(seeds, response) ==
    IF seeds = <<>> \/ ~response.ok THEN <<>>
    ELSE SelectSeq(response.v, LAMBDA f : f # NoVector)

\* lines 297-298, 323-324, 345-346: search results not in the exclusion set
NewTracks(results, exclude) == SelectSeq(results, LAMBDA t : t.id \notin exclude)

\* lines 275-302: one batch of search results per seed artist (at most 2)
Stage1(artists, responses, exclude) ==
    Concat([k \in 1..Min(2, Len(artists)) |-> NewTracks(responses[k], exclude)])

\* lines 304-328: entered when there are seed tracks and fewer than 2*limit
\* results so far; one batch of results per seed track (at most 2)
Stage2Entered(seeds, recs, lim) == seeds # <<>> /\ Len(recs) < lim * 2
Stage2(seeds, recs, lim, responses, exclude) ==
    IF Stage2Entered(seeds, recs, lim)
    THEN recs \o Concat([k \in 1..Min(2, Len(seeds)) |-> NewTracks(responses[k], exclude)])
    ELSE recs

\* lines 330-350: entered when there are fewer than limit results so far
Stage3Entered_double_target(recs, lim) == Len(recs) < lim * 2
Stage3Entered(recs, lim) == Len(recs) < lim
Stage3(recs, lim, response, exclude) ==
    IF Stage3Entered(recs, lim) THEN recs \o NewTracks(response, exclude) ELSE recs

UniqueRecommendations_last(recs, exclude) ==
    KeepPositions(recs, {i \in 1..Len(recs) :
                            \A j \in (i + 1)..Len(recs) : recs[j].id # recs[i].id})
\* lines 352-357: first occurrence of each id, excluded ids dropped
UniqueRecommendations(recs, exclude) ==
    KeepPositions(recs, {i \in 1..Len(recs) :
                            /\ \A j \in 1..(i - 1) :
                                  recs[j].id # recs[i].id \/ recs[j].id \in exclude
                            /\ recs[i].id \notin exclude})

\* a feature vector is <<danceability, energy, valence, acousticness>>
Dimensions == 1..4

PopularityScore100_signed(t) == 100 - (Popularity(t, 50) - 60)
\* 100 * popularity_score = 100 - |popularity - 60|, popularity 50 when absent
PopularityScore100(t) == 100 - Abs(Popularity(t, 50) - 60)

\* 400*n*similarity_score for n seed vectors: the four differences from the
\* seeds' averages, each weighted 0.25 (lines 382-392)
Similarity400n(features, seed_features) ==
    LET n == Len(seed_features)
        diff(d) == Abs(n * features[d] - SumSeq([i \in 1..n |-> seed_features[i][d]]))
    IN 400 * n - SumSeq([d \in Dimensions |-> diff(d)])

\* 500*n*final_score (lines 376-401): 0.8*similarity + 0.2*popularity_score
\* when the track has features and similarity_score > 0, else popularity_score
FinalScore500n(t, features, seed_features) ==
    LET n == Len(seed_features)
    IN IF features # NoVector /\ Similarity400n(features, seed_features) > 0
       THEN Similarity400n(features, seed_features) + n * PopularityScore100(t)
       ELSE 5 * n * PopularityScore100(t)

\* lines 409-417: sorted by |popularity - 60| ascending (stable)
SortByPopularity_raw(unique) ==
    LET pos == 1..Len(unique)
        k == [i \in pos |-> Popularity(unique[i], 50)]
        order == SortDesc([i \in pos |-> i], k)
    IN [i \in pos |-> unique[order[i]]]
SortByPopularity(unique) ==
    LET pos == 1..Len(unique)
        k == [i \in pos |-> PopularityScore100(unique[i])]
        order == SortDesc([i \in pos |-> i], k)
    IN [i \in pos |-> unique[order[i]]]

\* lines 359-417: features maps a track id to its vector or None, or is Fail
\* when an audio_features call raises
SortedRecommendations(unique, seed_features, features) ==
    IF seed_features # <<>> /\ unique # <<>> /\ features.ok
    THEN LET pos == 1..Len(unique)
             k == [i \in pos |->
                      FinalScore500n(unique[i], features.v[unique[i].id], seed_features)]
             order == SortDesc([i \in pos |-> i], k)
         IN [i \in pos |-> unique[order[i]]]
    ELSE SortByPopularity(unique)

\* int(limit * 0.85)
DiscoveryLimit(lim) == (lim * 85) \div 100

FamiliarCandidates_any(recent) == Take(recent, 20)
\* lines 426-429: the first 20 recent tracks with popularity in [40, 85]
FamiliarCandidates(recent) ==
    SelectSeq(Take(recent, 20), LAMBDA t : 40 <= Popularity(t, 0) /\ Popularity(t, 0) <= 85)

\* random.sample(population, k): k positions, no position twice, any order
Samples(population, k) ==
    {c \in [1..k -> 1..Len(population)] : \A i, j \in 1..k : i # j => c[i] # c[j]}

DiverseRecommendations_unsliced(sorted, recent, lim, choice) ==
    IF Len(sorted) > 0
    THEN IF choice.ok
         THEN sorted \o [i \in 1..Len(choice.v) |-> FamiliarCandidates(recent)[choice.v[i]]]
         ELSE Take(sorted, lim)
    ELSE Take(sorted, lim)
\* lines 419-443: choice is what random.sample picks, or Fail when building
\* the familiar tracks raises
DiverseRecommendations(sorted, recent, lim, choice) ==
    IF Len(sorted) > 0
    THEN IF choice.ok
         THEN Take(sorted, DiscoveryLimit(lim))
              \o [i \in 1..Len(choice.v) |-> FamiliarCandidates(recent)[choice.v[i]]]
         ELSE Take(sorted, lim)
    ELSE Take(sorted, lim)

FamiliarChoices(recent, lim) ==
    {Ok(c) : c \in Samples(FamiliarCandidates(recent),
                           Min(lim - DiscoveryLimit(lim), Len(FamiliarCandidates(recent))))}
    \cup {Fail}

\* The whole method.  env holds the catalog's answers; a failure to fetch the
\* recent plays or the list of playlists is caught by the outer handler,
\* which returns [].
DiscoveryPool(seeds, artists, lim, env) ==
    LET exclude == ExcludePlaylists(
                       ExcludeSaved(ExcludeRecent(env.recent_plays.v), env.saved),
                       env.playlists.v)
        s1 == Stage1(artists, env.stage1, exclude)
        s2 == Stage2(seeds, s1, lim, env.stage2, exclude)
        s3 == Stage3(s2, lim, env.stage3, exclude)
    IN UniqueRecommendations(s3, exclude)

get_discovery_recommendations(seeds, artists, lim, env, choice) ==
    IF ~env.recent_plays.ok \/ ~env.playlists.ok THEN <<>>
    ELSE DiverseRecommendations(
             SortedRecommendations(DiscoveryPool(seeds, artists, lim, env),
                                   SeedAudioFeatures(seeds, env.seed_features),
                                   env.features),
             env.recent_plays.v, lim, choice)

(***************************************************************************)
(* The other catalog calls of a run.                                       *)
(***************************************************************************)
\* get_recommendations_via_search (lines 168-206): searches per seed artist,
\* then per seed track while fewer than limit results; first occurrence of
\* each id; at most limit tracks.  Any exception gives [].
get_recommendations_via_search(seeds, artists, lim, response) ==
    IF ~response.ok THEN <<>>
    ELSE LET a == Concat([k \in 1..Min(2, Len(artists)) |-> response.v[1][k]])
             t == IF seeds # <<>> /\ Len(a) < lim
                  THEN a \o Concat([k \in 1..Min(2, Len(seeds)) |-> response.v[2][k]])
                  ELSE a
         IN Take(UniqueById(t), lim)

\* get_recommendations (lines 474-497): at most 5 seeds are sent, tracks
\* before artists before genres
TrimSeeds_untrimmed(seeds, artists, genres) == <<seeds, artists, genres>>
\* lines 482-497
TrimSeeds(seeds, artists, genres) ==
    IF Len(seeds) + Len(artists) + Len(genres) > 5
    THEN IF Len(seeds) > 5 THEN <<Take(seeds, 5), <<>>, <<>> >>
         ELSE IF Len(artists) > 5 - Len(seeds)
              THEN <<seeds, Take(artists, 5 - Len(seeds)), <<>> >>
              ELSE <<seeds, artists, Take(genres, 5 - Len(seeds) - Len(artists))>>
    ELSE <<seeds, artists, genres>>

\* lines 499-528: the tracks of the answer, [] when the call raises
get_recommendations(seeds, artists, genres, lim, response) ==
    IF response.ok THEN response.v ELSE <<>>

\* add_tracks_to_playlist (line 572)
chunk_size == 100

(***************************************************************************)
(* The inputs of a run: the command line and the catalog's answers.        *)
(***************************************************************************)
T(i) == Track(i, 60)
BulkLen == chunk_size + MaxId
\* more recommendations than one write call takes
BulkTracks == [i \in 1..BulkLen |-> T(i)]

Args == [tracks : (1..MaxTracks) \cup {BulkLen}, dry_run : BOOLEAN, name : {None, "My Mix"}]

\* the user's top tracks: none, or one more track than there are seed tracks
TopResponses == {Fail, Ok(<<>>), Ok([i \in 1..(MaxId + 1) |-> T(i)])}
RecentResponses == {Fail, Ok(<<>>), Ok(<<T(2)>>)}

\* the answers get_discovery_recommendations gets during a run
RunEnvs ==
    [recent_plays : {Fail, Ok(<<>>), Ok(<<T(1), T(1)>>)},
     saved : {Fail, Ok(<<2>>)},
     playlists : {Ok(<<>>), Ok(<<[own |-> TRUE, items |-> Ok(<<MaxId>>)]>>)},
     seed_features : {Fail},
     stage1 : {<< <<>>, <<>> >>, << <<T(1), T(2)>>, <<T(MaxId)>> >>},
     stage2 : {<< <<>>, <<>> >>, << <<T(2)>>, <<T(1)>> >>},
     stage3 : {<<>>, <<T(1), T(MaxId)>>},
     features : {Fail}]

SearchResponses ==
    {Fail,
     Ok(<< << <<>>, <<>> >>, << <<>>, <<>> >> >>),
     Ok(<< << <<T(1)>>, <<>> >>, << <<T(2)>>, <<T(1)>> >> >>)}

RecommendationResponses ==
    {Fail, Ok(<<>>), Ok(<<T(1)>>), Ok(<<T(2), T(1)>>), Ok(BulkTracks)}

\* The history earlier runs left behind: the k-th of them recorded its
\* playlist at clock reading k - 1.
PriorTrackLists == {<<1>>, <<2, 1>>}
PriorFile(lists) ==
    LET RECURSIVE Written(_)
        Written(k) ==
            IF k = 0 THEN ValidFile(<<>>)
            ELSE add_playlist(Written(k - 1), k, <<"My Mix">>, lists[k],
                              [seed_tracks |-> <<1>>, seed_artists |-> <<>>,
                               filter_count |-> 0],
                              k - 1, "ok")
    IN Written(Len(lists))
PriorFiles ==
    {MissingFile, CorruptFile}
    \cup {PriorFile(lists) : lists \in SeqsUpTo(PriorTrackLists, MaxPrior)}

NoPlaylist == [ok |-> FALSE, id |-> 0]

(***************************************************************************)
(* generate_playlist (main.py), one action per stretch between its calls.  *)
(***************************************************************************)
\* the store as earlier runs left it, read at the time of the last of them
InitStore ==
    /\ history_file \in PriorFiles
    /\ clock = Max(Len(history_file.data) - 1, 0)
    /\ history_before = history_file

\* no run of generate_playlist has started
InitRun ==
    /\ args = [tracks |-> 1, dry_run |-> FALSE, name |-> None]
    /\ remote = <<>>
    /\ trace = <<>>
    /\ top_tracks = <<>> /\ recent_tracks = <<>>
    /\ recommendations = <<>>
    /\ previous_track_ids = {}
    /\ filtered_tracks = <<>>
    /\ playlist_tracks = <<>>
    /\ playlist_name = None
    /\ playlist = NoPlaylist
    /\ batch_i = 0
    /\ result = "none"
    /\ email = "none"
    /\ twin = <<>>
    /\ exit_status = <<>>
    /\ stages_entered = <<>>
    /\ fetched = <<>>
    /\ callers = <<>>

\* select_seed_tracks_and_artists is called as main.py calls it (lines 62-66)
InitSeedArgs ==
    /\ seed_limits = [max_seed_tracks |-> 3, max_seed_artists |-> 2]

\* no read method of the catalog client called on its own
InitReads ==
    /\ method = None
    /\ seed_genres = <<>>
    /\ sent_seeds = <<>>
    /\ remote_failed = FALSE
    /\ returned = <<>>

\* no candidate scored on its own
InitScore ==
    /\ candidate = <<>>
    /\ candidate_features = <<>>
    /\ final_score = 0

\* none of the methods is called outside a run
InitFunctions ==
    /\ InitSeedArgs
    /\ InitReads
    /\ InitScore

\* no call of get_discovery_recommendations has started
InitDiscovery ==
    /\ limit = 0
    /\ exclude_tracks = {}
    /\ recent_tracks_list = <<>>
    /\ seed_audio_features = <<>>
    /\ gathered = <<>>
    /\ unique_recommendations = <<>>
    /\ sorted_recommendations = <<>>
    /\ diverse_recommendations = <<>>

Init ==
    /\ pc = "idle"
    /\ InitStore
    /\ InitRun
    /\ seed_tracks = <<>> /\ seed_artists = <<>>
    /\ InitDiscovery
    /\ InitFunctions
    /\ added = <<>>
    /\ completed = 0

\* return None
ReturnNone ==
    /\ result' = "failed"
    /\ pc' = "done"

\* the invocation, some time after the last one (lines 42-44)
StartRun ==
    /\ pc = "idle"
    /\ \E a \in Args, t \in Clock :
          /\ t > clock
          /\ args' = a
          /\ clock' = t
    /\ result' = "running"
    /\ pc' = "init"
    /\ UNCHANGED <<history_file, history_before, remote, trace, top_tracks,
                   recent_tracks, seedVars, recommendations, previous_track_ids,
                   filtered_tracks, playlist_tracks, playlist_name, playlist,
                   batch_i, discVars, histVars, fnVars, email>>

\* lines 47-50: the constructors; PlaylistTracker creates the history file
\* when it is missing.  A constructor that raises ends the run.
InitComponents ==
    /\ pc = "init"
    /\ \E ok \in BOOLEAN :
          IF ok
          THEN /\ history_file' = IF history_file.state = "missing"
                                   THEN ValidFile(<<>>) ELSE history_file
               /\ pc' = "fetch"
               /\ UNCHANGED result
          ELSE /\ ReturnNone
               /\ UNCHANGED history_file
    /\ UNCHANGED <<clock, args, history_before, remote, trace, top_tracks,
                   recent_tracks, seedVars, recommendations, previous_track_ids,
                   filtered_tracks, playlist_tracks, playlist_name, playlist,
                   batch_i, discVars, histVars, fnVars, email>>

\* get_top_tracks / get_recently_played_tracks: [] when the call raises
get_top_tracks(response) == IF response.ok THEN response.v ELSE <<>>
get_recently_played_tracks(response) == IF response.ok THEN response.v ELSE <<>>

NoListeningData_unchecked(top, recent) == FALSE
\* line 56
NoListeningData(top, recent) == top = <<>> /\ recent = <<>>

\* lines 52-58
FetchListeningData ==
    /\ pc = "fetch"
    /\ \E top \in TopResponses, recent \in RecentResponses :
          /\ top_tracks' = get_top_tracks(top)
          /\ recent_tracks' = get_recently_played_tracks(recent)
    /\ IF NoListeningData(top_tracks', recent_tracks')
       THEN ReturnNone
       ELSE pc' = "seeds" /\ UNCHANGED result
    /\ UNCHANGED <<clock, history_file, args, history_before, remote, trace,
                   seedVars, recommendations, previous_track_ids, filtered_tracks,
                   playlist_tracks, playlist_name, playlist, batch_i, discVars,
                   histVars, fnVars, email>>

\* lines 60-66
SelectSeeds ==
    /\ pc = "seeds"
    /\ LET s == select_seed_tracks_and_artists(top_tracks, recent_tracks, 3, 2)
       IN seed_tracks' = s[1] /\ seed_artists' = s[2]
    /\ pc' = "discover"
    /\ UNCHANGED <<clock, history_file, args, history_before, remote, trace,
                   top_tracks, recent_tracks, recommendations, previous_track_ids, filtered_tracks,
                   playlist_tracks, playlist_name, playlist, batch_i, result,
                   discVars, histVars, fnVars, email>>

\* lines 68-73
GetDiscoveryRecommendations ==
    /\ pc = "discover"
    /\ \E env \in RunEnvs :
          \E choice \in FamiliarChoices(env.recent_plays.v, args.tracks * 2) :
             recommendations' =
                 get_discovery_recommendations(seed_tracks, seed_artists,
                                               args.tracks * 2, env, choice)
    /\ pc' = IF recommendations' = <<>> THEN "search" ELSE "filter"
    /\ UNCHANGED <<clock, history_file, args, history_before, remote, trace,
                   top_tracks, recent_tracks, seedVars, previous_track_ids,
                   filtered_tracks, playlist_tracks, playlist_name, playlist,
                   batch_i, result, discVars, histVars, fnVars, email>>

\* lines 75-81
SearchFallback ==
    /\ pc = "search"
    /\ \E response \in SearchResponses :
          recommendations' =
              get_recommendations_via_search(seed_tracks, seed_artists,
                                             args.tracks * 2, response)
    /\ pc' = IF recommendations' = <<>> THEN "recommend" ELSE "filter"
    /\ UNCHANGED <<clock, history_file, args, history_before, remote, trace,
                   top_tracks, recent_tracks, seedVars, previous_track_ids,
                   filtered_tracks, playlist_tracks, playlist_name, playlist,
                   batch_i, result, discVars, histVars, fnVars, email>>

\* lines 83-97
RecommendationsFallback ==
    /\ pc = "recommend"
    /\ \E response \in RecommendationResponses :
          recommendations' =
              get_recommendations(seed_tracks, seed_artists, <<>>,
                                  args.tracks * 2, response)
    /\ IF recommendations' = <<>>
       THEN ReturnNone
       ELSE pc' = "filter" /\ UNCHANGED result
    /\ UNCHANGED <<clock, history_file, args, history_before, remote, trace,
                   top_tracks, recent_tracks, seedVars, previous_track_ids,
                   filtered_tracks, playlist_tracks, playlist_name, playlist,
                   batch_i, discVars, histVars, fnVars, email>>

\* "Weekly Discoveries - <date>" (lines 114-118); the model reads the clock
\* once per date
DefaultName(now) == <<"Weekly Discoveries", now>>
PlaylistName(a, now) == IF a.name # None THEN <<a.name>> ELSE DefaultName(now)

PlaylistTracks_no_fallback(filtered, recs, n) == Take(filtered, n)
\* lines 108-112
PlaylistTracks(filtered, recs, n) ==
    IF Take(filtered, n) # <<>> THEN Take(filtered, n) ELSE Take(recs, n)

DryRun_ignored(a) == FALSE
\* line 125
DryRun(a) == a.dry_run

\* lines 99-123; reading the history file may raise (an error other than a
\* missing or unparseable file), which ends the run
FilterAgainstHistory ==
    /\ pc = "filter"
    /\ \E readable \in BOOLEAN :
          IF readable
          THEN /\ previous_track_ids' = get_recent_track_ids(history_file, 1)
               /\ filtered_tracks' = filter_tracks(recommendations, previous_track_ids')
               /\ playlist_tracks' =
                      PlaylistTracks(filtered_tracks', recommendations, args.tracks)
               /\ playlist_name' = PlaylistName(args, clock)
               /\ pc' = IF DryRun(args) THEN "dry" ELSE "create"
               /\ UNCHANGED result
          ELSE /\ ReturnNone
               /\ UNCHANGED <<previous_track_ids, filtered_tracks, playlist_tracks,
                              playlist_name>>
    /\ UNCHANGED <<clock, history_file, args, history_before, remote, trace,
                   top_tracks, recent_tracks, seedVars, recommendations, playlist,
                   batch_i, discVars, histVars, fnVars, email>>

\* send_email (email_notifier.py): sent, failed or skipped for missing
\* credentials; it returns in every case
EmailOutcomes == {"sent", "failed", "skipped"}

ResultAfterEmail_fatal(outcome, delivery) ==
    IF delivery = "failed" THEN "failed" ELSE outcome
\* main.py lines 165-177 and 249-260: what send_email returns is not looked
\* at; the run returns the outcome it had reached
ResultAfterEmail(outcome, delivery) == outcome

\* lines 125-177
DryRunReport ==
    /\ pc = "dry"
    /\ \E delivery \in EmailOutcomes :
          /\ email' = delivery
          /\ result' = ResultAfterEmail("dry", delivery)
    /\ pc' = "done"
    /\ UNCHANGED <<clock, history_file, args, history_before, remote, trace,
                   top_tracks, recent_tracks, seedVars, recommendations,
                   previous_track_ids, filtered_tracks, playlist_tracks,
                   playlist_name, playlist, batch_i, discVars, histVars, fnVars>>

\* create_playlist (lines 547-559): the playlist, None when the call raises
create_playlist(created, id) == IF created THEN [ok |-> TRUE, id |-> id] ELSE NoPlaylist

AfterCreate_skip_add(p) == IF p.ok THEN "record" ELSE "done"
\* lines 186-193: where the run goes with what create_playlist returned
AfterCreate(p) == IF p.ok THEN "add" ELSE "done"

\* lines 179-188
CreatePlaylist ==
    /\ pc = "create"
    /\ \E created \in BOOLEAN :
          /\ remote' = IF created
                       THEN Append(remote, [name |-> playlist_name, items |-> <<>>])
                       ELSE remote
          /\ trace' = Append(trace, IF created THEN "create:ok" ELSE "create:raised")
          /\ playlist' = create_playlist(created, Len(remote) + 1)
    /\ pc' = AfterCreate(playlist')
    /\ result' = IF pc' = "done" THEN "failed" ELSE result
    /\ batch_i' = 0
    /\ UNCHANGED <<clock, history_file, args, history_before, top_tracks,
                   recent_tracks, seedVars, recommendations, previous_track_ids,
                   filtered_tracks, playlist_tracks, playlist_name, discVars,
                   histVars, fnVars, email>>

TrackUris(tracks) == [i \in 1..Len(tracks) |-> Uri(tracks[i])]

Chunk_from_start(track_uris, i) == Slice(track_uris, 0, i + chunk_size)
\* the chunk add_tracks_to_playlist writes at offset i (line 574)
Chunk(track_uris, i) == Slice(track_uris, i, i + chunk_size)

AddSucceeded_always(written) == TRUE
\* lines 570-582: what add_tracks_to_playlist returns when its write calls
\* have all returned (written) or one of them raised
AddSucceeded(written) == written

\* lines 190-200, add_tracks_to_playlist (lines 566-582): one write call per
\* chunk; False when there is nothing to add or a call raises
AddTracksToPlaylist ==
    /\ pc = "add"
    /\ LET track_uris == TrackUris(playlist_tracks)
       IN IF track_uris = <<>>
          THEN /\ trace' = Append(trace, "add:nothing")
               /\ ReturnNone
               /\ UNCHANGED <<remote, batch_i>>
          ELSE \E written \in BOOLEAN :
                 /\ remote' = IF written
                              THEN [remote EXCEPT ![playlist.id].items =
                                       @ \o Chunk(track_uris, batch_i)]
                              ELSE remote
                 /\ batch_i' = IF written THEN batch_i + chunk_size ELSE batch_i
                 /\ IF written /\ batch_i' < Len(track_uris)
                    THEN UNCHANGED <<trace, pc, result>>
                    ELSE /\ trace' = Append(trace, IF written THEN "add:ok"
                                                   ELSE "add:raised")
                         /\ IF AddSucceeded(written)
                            THEN pc' = "record" /\ UNCHANGED result
                            ELSE ReturnNone
    /\ UNCHANGED <<clock, history_file, args, history_before, top_tracks,
                   recent_tracks, seedVars, recommendations, previous_track_ids,
                   filtered_tracks, playlist_tracks, playlist_name, playlist,
                   discVars, histVars, fnVars, email>>

\* lines 202-211: the read inside add_playlist may raise, which ends the run;
\* a failed write is caught inside _write_history
RecordHistory ==
    /\ pc = "record"
    /\ \E readable \in BOOLEAN :
          IF readable
          THEN /\ \E w \in WriteOutcomes :
                    history_file' =
                        add_playlist(history_file, playlist.id, playlist_name,
                                     Ids(playlist_tracks),
                                     [seed_tracks |-> seed_tracks,
                                      seed_artists |-> seed_artists,
                                      filter_count |-> Cardinality(previous_track_ids)],
                                     clock, w)
               /\ trace' = Append(trace, "append")
               /\ pc' = "notify"
               /\ UNCHANGED result
          ELSE /\ ReturnNone
               /\ UNCHANGED <<history_file, trace>>
    /\ UNCHANGED <<clock, args, history_before, remote, top_tracks,
                   recent_tracks, seedVars, recommendations, previous_track_ids,
                   filtered_tracks, playlist_tracks, playlist_name, playlist,
                   batch_i, discVars, histVars, fnVars, email>>

\* lines 213-260
NotifyAndReturn ==
    /\ pc = "notify"
    /\ \E delivery \in EmailOutcomes :
          /\ email' = delivery
          /\ result' = ResultAfterEmail("ok", delivery)
    /\ pc' = "done"
    /\ UNCHANGED <<clock, history_file, args, history_before, remote, trace,
                   top_tracks, recent_tracks, seedVars, recommendations,
                   previous_track_ids, filtered_tracks, playlist_tracks,
                   playlist_name, playlist, batch_i, discVars, histVars, fnVars>>

\* lines 266-275: __main__ logs what generate_playlist returned and falls off
\* the end of the script; no sys.exit is called, so the interpreter ends
\* with status 0
ExitStatus(outcome) == 0

\* lines 266-275
ExitProcess ==
    /\ pc = "done"
    /\ exit_status = <<>>
    /\ exit_status' = <<ExitStatus(result)>>
    /\ UNCHANGED <<pc, clock, history_file, runVars, seedVars, discVars, histVars,
                   seed_limits, method, seed_genres, sent_seeds, remote_failed,
                   returned, candidate, candidate_features, final_score, twin,
                   callers, stages_entered, fetched, email>>

Next ==
    \/ StartRun
    \/ InitComponents
    \/ FetchListeningData
    \/ SelectSeeds
    \/ GetDiscoveryRecommendations
    \/ SearchFallback
    \/ RecommendationsFallback
    \/ FilterAgainstHistory
    \/ DryRunReport
    \/ CreatePlaylist
    \/ AddTracksToPlaylist
    \/ RecordHistory
    \/ NotifyAndReturn
    \/ ExitProcess

Spec == Init /\ [][Next]_vars

(***************************************************************************)
(* Properties of a run (Spec).                                             *)
(***************************************************************************)
\* the steps after the history filter has produced the playlist's tracks
Assembled == pc \in {"dry", "create", "add", "record", "notify"} \/ result \in {"dry", "ok"}
\* the run has had no effect outside itself
NoWrites ==
    /\ trace = <<>>
    /\ remote = <<>>
    /\ _read_history(history_file) = _read_history(history_before)
\* ids of the tracks the created playlist holds
AddedIds == [i \in 1..Len(remote[playlist.id].items) |-> UriId(remote[playlist.id].items[i])]

\* C1: a dry run never calls playlist creation or track addition and never
\* appends to the history; the history's record list is what it was before
\* the run, and the run does not report a live success.
C1_DryRunWritesNothing ==
    (pc # "idle" /\ args.dry_run) => (NoWrites /\ result # "ok")
C1_Witness ==
    /\ pc = "done" /\ result = "dry" /\ args.dry_run
    /\ playlist_tracks # <<>> /\ _read_history(history_before) # <<>>

\* C2: in a live run, when playlist creation raised, or a write of track
\* addition raised (on the first or on a later batch), the run ends in
\* failure and the history's record list is what it was before the run.
C2_WriteFailureLeavesHistory ==
    (\E i \in 1..Len(trace) : trace[i] \in {"create:raised", "add:raised"}) =>
        /\ pc = "done" /\ result = "failed"
        /\ _read_history(history_file) = _read_history(history_before)
C2_Witness ==
    /\ pc = "done" /\ result = "failed"
    /\ trace = <<"create:ok", "add:raised">>
    /\ Len(remote[playlist.id].items) = chunk_size
    /\ Len(playlist_tracks) > chunk_size
    /\ _read_history(history_before) # <<>>

\* C3: a run without listening data, or whose candidate cascade ended with
\* no candidates, ends in failure with no creation, no addition and no
\* history append.
C3_NoDataFailsWithoutWrites ==
    /\ (pc \notin {"idle", "init", "fetch"} /\ top_tracks = <<>> /\ recent_tracks = <<>>)
           => (pc = "done" /\ result = "failed" /\ NoWrites)
    /\ (pc \in {"filter", "dry", "create", "add", "record", "notify", "done"}
           /\ recommendations = <<>>)
           => (pc = "done" /\ result = "failed" /\ NoWrites)
C3_Witness ==
    /\ pc = "done" /\ result = "failed"
    /\ top_tracks # <<>> /\ seed_tracks # <<>> /\ recommendations = <<>>
    /\ ~args.dry_run

\* C4: the mutating steps happen in order and at most once: tracks are
\* written only to the one playlist creation returned, and the history
\* append follows a track addition that succeeded.
C4_MutatingStepsInOrder ==
    /\ trace \in {<<>>, <<"create:raised">>, <<"create:ok">>,
                  <<"create:ok", "add:raised">>, <<"create:ok", "add:ok">>,
                  <<"create:ok", "add:ok", "append">>}
    /\ Len(remote) <= 1
    /\ (remote # <<>>) => (trace # <<>> /\ trace[1] = "create:ok")
    /\ (_read_history(history_file) # _read_history(history_before))
           => (Len(trace) = 3 /\ AddedIds = Ids(playlist_tracks))
C4_Witness ==
    /\ trace = <<"create:ok", "add:ok", "append">>
    /\ _read_history(history_file) # _read_history(history_before)

\* C5: whenever the history filter leaves at least one track, no track of
\* the playlist has an id that a playlist recorded within the last week
\* (TicksPerWeek clock ticks before the run) holds.
C5_NoTrackOfTheLastWeek ==
    (Assembled /\ filtered_tracks # <<>>) =>
        LET history == _read_history(history_before)
        IN \A i \in 1..Len(playlist_tracks), k \in 1..Len(history) :
              (history[k].created_at + TicksPerWeek > clock)
                  => playlist_tracks[i].id \notin Range(history[k].tracks)

\* C6: when the history filter removes every recommended track the playlist
\* is the unfiltered recommendations cut to the requested count, and no
\* assembled or created playlist is empty.
C6_FallbackToUnfiltered ==
    /\ Assembled =>
          /\ (filtered_tracks = <<>>) =>
                 playlist_tracks = Take(recommendations, args.tracks)
          /\ playlist_tracks # <<>>
    /\ (pc \in {"record", "notify"} \/ result = "ok") => AddedIds # <<>>
C6_Witness ==
    /\ pc = "record"
    /\ recommendations # <<>> /\ filtered_tracks = <<>>
    /\ AddedIds = Ids(Take(recommendations, args.tracks))

(***************************************************************************)
(* The history store on its own (SpecHistory): calls of add_playlist on    *)
(* any prior file, with the wall clock that stamps the records.            *)
(***************************************************************************)
PlaylistNames == {<<"My Mix">>, <<"Evening">>}

InitHistory ==
    /\ pc = "store"
    /\ InitStore
    /\ InitRun
    /\ seed_tracks = <<>> /\ seed_artists = <<>>
    /\ InitDiscovery
    /\ InitFunctions
    /\ added = <<>>
    /\ completed = 0

\* add_playlist (playlist_data.py lines 34-59) with the clock reading of
\* line 47; the call returns whatever the write did
AddPlaylist ==
    /\ pc = "store"
    /\ completed < MaxHist
    /\ \E name \in PlaylistNames, track_ids \in PriorTrackLists, w \in WriteOutcomes :
          /\ history_file' = add_playlist(history_file, completed + 1, name, track_ids,
                                          [seed_tracks |-> <<>>, seed_artists |-> <<>>,
                                           filter_count |-> 0],
                                          clock, w)
          /\ added' = <<[name |-> name, tracks |-> track_ids]>>
    /\ completed' = completed + 1
    /\ UNCHANGED <<pc, clock, runVars, seedVars, discVars, fnVars, email>>

\* datetime.now() (line 47): time passes
Tick ==
    /\ pc = "store"
    /\ clock < MaxClock
    /\ clock' = clock + 1
    /\ UNCHANGED <<pc, history_file, runVars, seedVars, discVars, histVars, fnVars, email>>

\* datetime.now() (line 47) is the naive local wall clock, which repeats an
\* hour at the end of daylight saving time and follows every adjustment
SetBack ==
    /\ pc = "store"
    /\ \E t \in 0..(clock - 1) : clock' = t
    /\ UNCHANGED <<pc, history_file, runVars, seedVars, discVars, histVars, fnVars, email>>

\* the process dies inside add_playlist after line 42 has read the file and
\* before line 57 writes it
CrashBeforeWrite ==
    /\ pc = "store"
    /\ completed < MaxHist
    /\ pc' = "crashed"
    /\ UNCHANGED <<clock, history_file, runVars, seedVars, discVars, histVars, fnVars, email>>

\* a new process opens the store (lines 20-32)
Restart ==
    /\ pc = "crashed"
    /\ pc' = "store"
    /\ history_file' = IF history_file.state = "missing" THEN ValidFile(<<>>)
                       ELSE history_file
    /\ UNCHANGED <<clock, runVars, seedVars, discVars, histVars, fnVars, email>>

NextHistory ==
    \/ AddPlaylist
    \/ Tick
    \/ SetBack
    \/ CrashBeforeWrite
    \/ Restart

SpecHistory == InitHistory /\ [][NextHistory]_vars

\* C10: after add_playlist completes, get_recent_playlists(1) returns the
\* record just written, with the same name and the same track-id list.
C10_RoundTrip ==
    (added # <<>>) =>
        LET recent == get_recent_playlists(history_file, 1)
        IN /\ Len(recent) = 1
           /\ recent[1].name = added[1].name
           /\ recent[1].tracks = added[1].tracks

\* C11: the history is append-only: no call of add_playlist, and no crash
\* between its read and its write, removes, changes or reorders a stored
\* record, and a call that completes adds exactly one record at the end.
C11_AppendOnly ==
    [][LET before == _read_history(history_file)
           after == _read_history(history_file')
       IN /\ Len(after) >= Len(before)
          /\ SubSeq(after, 1, Len(before)) = before
          /\ (completed' = completed + 1) => (Len(after) = Len(before) + 1)]_vars

(***************************************************************************)
(* select_seed_tracks_and_artists on its own (SpecSeeds): any short lists  *)
(* of top and recent tracks, any limits.                                   *)
(***************************************************************************)
MaxTop == 4
MaxRecent == 2
MaxSeedTracks == 3
MaxSeedArtists == 2

ListenedTracks == {T(1), T(2), T(3)}

InitSeeds ==
    /\ pc = "select"
    /\ history_file = MissingFile
    /\ history_before = MissingFile
    /\ clock = 0
    /\ args = [tracks |-> 1, dry_run |-> FALSE, name |-> None]
    /\ remote = <<>> /\ trace = <<>>
    /\ top_tracks \in SeqsUpTo(ListenedTracks, MaxTop)
    /\ recent_tracks \in SeqsUpTo(ListenedTracks, MaxRecent)
    /\ recommendations = <<>>
    /\ previous_track_ids = {}
    /\ filtered_tracks = <<>> /\ playlist_tracks = <<>>
    /\ playlist_name = None
    /\ playlist = NoPlaylist
    /\ batch_i = 0
    /\ result = "none"
    /\ email = "none"
    /\ twin = <<>>
    /\ exit_status = <<>>
    /\ stages_entered = <<>>
    /\ fetched = <<>>
    /\ callers = <<>>
    /\ seed_limits \in [max_seed_tracks : 1..MaxSeedTracks,
                         max_seed_artists : 0..MaxSeedArtists]
    /\ seed_tracks = <<>> /\ seed_artists = <<>>
    /\ InitDiscovery
    /\ InitReads
    /\ InitScore
    /\ added = <<>>
    /\ completed = 0

\* data_processor.py lines 29-83
SelectSeedTracksAndArtists ==
    /\ pc = "select"
    /\ LET s == select_seed_tracks_and_artists(top_tracks, recent_tracks,
                                               seed_limits.max_seed_tracks,
                                               seed_limits.max_seed_artists)
       IN seed_tracks' = s[1] /\ seed_artists' = s[2]
    /\ pc' = "selected"
    /\ UNCHANGED <<clock, history_file, runVars, discVars, histVars, fnVars, email>>

NextSeeds == SelectSeedTracksAndArtists

SpecSeeds == InitSeeds /\ [][NextSeeds]_vars

\* C12 (as claimed): for any non-empty top tracks and no recent tracks, the
\* seed tracks are the first max_seed_tracks top tracks, in list order (a
\* track listed twice counted where it is listed first).
C12_SeedsAreFirstTopTracks ==
    (pc = "selected" /\ top_tracks # <<>> /\ recent_tracks = <<>>) =>
        seed_tracks = Take(FirstOccurrences(Ids(top_tracks)), seed_limits.max_seed_tracks)

\* C12 (amended): the same, for top tracks whose ids are pairwise distinct.
C12_SeedsAreFirstDistinctTopTracks ==
    (/\ pc = "selected" /\ top_tracks # <<>> /\ recent_tracks = <<>>
     /\ NoDuplicates(Ids(top_tracks))) =>
        seed_tracks = Ids(Take(top_tracks, seed_limits.max_seed_tracks))
C12_Witness ==
    /\ pc = "selected" /\ recent_tracks = <<>>
    /\ NoDuplicates(Ids(top_tracks))
    /\ Len(top_tracks) > seed_limits.max_seed_tracks
    /\ seed_limits.max_seed_tracks > 1
    /\ seed_tracks = Ids(Take(top_tracks, seed_limits.max_seed_tracks))

\* the artists credited on the chosen seed tracks
SeedTrackArtists ==
    UNION {Range(t.artists) : t \in {u \in Range(top_tracks \o recent_tracks) :
                                       u.id \in Range(seed_tracks)}}

\* C13: no seed artist is credited on a chosen seed track, and there are at
\* most max_seed_artists seed artists.
C13_SeedArtistsNotOnSeedTracks ==
    (pc = "selected") =>
        /\ Range(seed_artists) \cap SeedTrackArtists = {}
        /\ Len(seed_artists) <= seed_limits.max_seed_artists
C13_Witness ==
    /\ pc = "selected"
    /\ seed_artists # <<>>
    /\ Len(seed_artists) < seed_limits.max_seed_artists
    /\ SeedTrackArtists # {}

\* one top track A and one recent track B of two different artists, with
\* max_seed_tracks = 3 and max_seed_artists = 2
ScenarioAB ==
    /\ pc = "selected"
    /\ top_tracks = <<T(1)>> /\ recent_tracks = <<T(2)>>
    /\ seed_limits = [max_seed_tracks |-> 3, max_seed_artists |-> 2]

\* C14 (as claimed): in that scenario both artists are eligible: neither is
\* removed from the seed-artist candidates, so both are seed artists.
C14_BothArtistsEligible ==
    ScenarioAB => (Range(seed_artists) = Range(T(1).artists) \cup Range(T(2).artists))

\* C14 (amended): in that scenario the seed tracks are A then B, and both
\* artists are removed from the candidates, each being credited on a chosen
\* seed track: there is no seed artist.
C14_BothArtistsRemoved ==
    ScenarioAB => (seed_tracks = <<1, 2>> /\ seed_artists = <<>>)
C14_Witness ==
    /\ ScenarioAB
    /\ Range(T(1).artists) \cap Range(T(2).artists) = {}
    /\ seed_tracks = <<1, 2>>

(***************************************************************************)
(* get_discovery_recommendations on its own (SpecDiscovery): one action    *)
(* per stretch of the method between two catalog calls.                    *)
(***************************************************************************)
MaxLimit == 3

RecentPlays ==
    {Fail, Ok(<<>>), Ok(<<Track(1, 60)>>), Ok(<<Track(1, 60), Track(2, 90)>>),
     Ok(<<Track(2, NoPop), Track(1, 40), Track(1, 40)>>)}
SavedTracks == {Fail, Ok(<<>>), Ok(<<2>>)}
UserPlaylists ==
    {Fail, Ok(<<>>),
     Ok(<<[own |-> TRUE, items |-> Ok(<<3>>)], [own |-> FALSE, items |-> Ok(<<1>>)]>>),
     Ok(<<[own |-> TRUE, items |-> Fail], [own |-> TRUE, items |-> Ok(<<1>>)]>>)}
SeedFeatureResponses == {Fail, Ok(<<NoVector>>), Ok(<< <<50, 50, 50, 50>> >>)}
SearchResults ==
    {<<>>, <<Track(3, 60), Track(1, 60)>>, <<Track(3, 100), Track(2, 60)>>,
     <<Track(2, 100), Track(3, 60)>>}
GenreResults == {<<>>, <<Track(3, 100), Track(1, 0)>>, <<Track(2, 60)>>}
FeatureResponses ==
    {Fail, Ok([i \in TrackIds |-> NoVector]),
     Ok([i \in TrackIds |-> <<20 * i, 50, 50, 50>>])}

InitDiscoveryCall ==
    /\ pc = "recent_plays"
    /\ history_file = MissingFile
    /\ history_before = MissingFile
    /\ clock = 0
    /\ InitRun
    /\ seed_tracks \in {<<>>, <<1>>}
    /\ seed_artists \in {<<>>, <<1, 2>>}
    /\ limit \in 1..MaxLimit
    /\ exclude_tracks = {}
    /\ recent_tracks_list = <<>>
    /\ seed_audio_features = <<>>
    /\ gathered = <<>>
    /\ unique_recommendations = <<>>
    /\ sorted_recommendations = <<>>
    /\ diverse_recommendations = <<>>
    /\ InitFunctions
    /\ added = <<>>
    /\ completed = 0

\* lines 447-449: the outer handler returns []
ReturnEmpty ==
    /\ diverse_recommendations' = <<>>
    /\ pc' = "returned"

\* lines 226-231
GetRecentPlays ==
    /\ pc = "recent_plays"
    /\ \E recent_plays \in RecentPlays :
          IF recent_plays.ok
          THEN /\ exclude_tracks' = ExcludeRecent(recent_plays.v)
               /\ recent_tracks_list' = recent_plays.v
               /\ pc' = "saved_tracks"
               /\ UNCHANGED diverse_recommendations
          ELSE /\ ReturnEmpty
               /\ UNCHANGED <<exclude_tracks, recent_tracks_list>>
    /\ UNCHANGED <<clock, history_file, runVars, seedVars, histVars, fnVars, email, limit,
                   seed_audio_features, gathered, unique_recommendations,
                   sorted_recommendations>>

\* lines 233-239
GetSavedTracks ==
    /\ pc = "saved_tracks"
    /\ \E saved \in SavedTracks :
          /\ exclude_tracks' = ExcludeSaved(exclude_tracks, saved)
          /\ fetched' = <<saved>>
    /\ pc' = "playlists"
    /\ UNCHANGED <<clock, history_file, runVars, seedVars, histVars, seed_limits,
                   method, seed_genres, sent_seeds, remote_failed, returned,
                   candidate, candidate_features, final_score, twin, exit_status,
                   callers, stages_entered, email, limit,
                   recent_tracks_list, seed_audio_features, gathered,
                   unique_recommendations, sorted_recommendations,
                   diverse_recommendations>>

\* lines 241-252
GetPlaylistItems ==
    /\ pc = "playlists"
    /\ \E playlists \in UserPlaylists :
          /\ fetched' = Append(fetched, playlists)
          /\ IF playlists.ok
             THEN /\ exclude_tracks' = ExcludePlaylists(exclude_tracks, playlists.v)
                  /\ pc' = "seed_features"
                  /\ UNCHANGED diverse_recommendations
             ELSE /\ ReturnEmpty
                  /\ UNCHANGED exclude_tracks
    /\ UNCHANGED <<clock, history_file, runVars, seedVars, histVars, seed_limits,
                   method, seed_genres, sent_seeds, remote_failed, returned,
                   candidate, candidate_features, final_score, twin, exit_status,
                   callers, stages_entered, email, limit,
                   recent_tracks_list, seed_audio_features, gathered,
                   unique_recommendations, sorted_recommendations>>

\* lines 256-273
GetSeedFeatures ==
    /\ pc = "seed_features"
    /\ \E response \in SeedFeatureResponses :
          seed_audio_features' = SeedAudioFeatures(seed_tracks, response)
    /\ pc' = "stage1"
    /\ UNCHANGED <<clock, history_file, runVars, seedVars, histVars, fnVars, email, limit,
                   exclude_tracks, recent_tracks_list, gathered,
                   unique_recommendations, sorted_recommendations,
                   diverse_recommendations>>

\* lines 275-302
SearchByArtists ==
    /\ pc = "stage1"
    /\ \E r1, r2 \in SearchResults :
          gathered' = Stage1(seed_artists, <<r1, r2>>, exclude_tracks)
    /\ pc' = "stage2"
    /\ UNCHANGED <<clock, history_file, runVars, seedVars, histVars, fnVars, email, limit,
                   exclude_tracks, recent_tracks_list, seed_audio_features,
                   unique_recommendations, sorted_recommendations,
                   diverse_recommendations>>

\* lines 304-328
SearchBySeedTracks ==
    /\ pc = "stage2"
    /\ \E r \in SearchResults :
          gathered' = Stage2(seed_tracks, gathered, limit, <<r, <<>> >>, exclude_tracks)
    /\ stages_entered' = IF Stage2Entered(seed_tracks, gathered, limit)
                         THEN Append(stages_entered, "stage2")
                         ELSE stages_entered
    /\ pc' = "stage3"
    /\ UNCHANGED <<clock, history_file, runVars, seedVars, histVars, seed_limits,
                   method, seed_genres, sent_seeds, remote_failed, returned,
                   candidate, candidate_features, final_score, twin, exit_status,
                   callers, fetched, email, limit,
                   exclude_tracks, recent_tracks_list, seed_audio_features,
                   unique_recommendations, sorted_recommendations,
                   diverse_recommendations>>

\* lines 330-357: the genre searches, then the pass that removes duplicates
SearchByGenres ==
    /\ pc = "stage3"
    /\ \E r \in GenreResults :
          gathered' = Stage3(gathered, limit, r, exclude_tracks)
    /\ stages_entered' = IF Stage3Entered(gathered, limit)
                         THEN Append(stages_entered, "stage3")
                         ELSE stages_entered
    /\ unique_recommendations' = UniqueRecommendations(gathered', exclude_tracks)
    /\ pc' = "score"
    /\ UNCHANGED <<clock, history_file, runVars, seedVars, histVars, seed_limits,
                   method, seed_genres, sent_seeds, remote_failed, returned,
                   candidate, candidate_features, final_score, twin, exit_status,
                   callers, fetched, email, limit,
                   exclude_tracks, recent_tracks_list, seed_audio_features,
                   sorted_recommendations, diverse_recommendations>>

\* lines 359-417
ScoreCandidates ==
    /\ pc = "score"
    /\ \E features \in FeatureResponses :
          sorted_recommendations' =
              SortedRecommendations(unique_recommendations, seed_audio_features, features)
    /\ pc' = "mix"
    /\ UNCHANGED <<clock, history_file, runVars, seedVars, histVars, fnVars, email, limit,
                   exclude_tracks, recent_tracks_list, seed_audio_features, gathered,
                   unique_recommendations, diverse_recommendations>>

\* lines 419-446
MixFamiliar ==
    /\ pc = "mix"
    /\ \E choice \in FamiliarChoices(recent_tracks_list, limit) :
          diverse_recommendations' =
              DiverseRecommendations(sorted_recommendations, recent_tracks_list,
                                     limit, choice)
    /\ pc' = "returned"
    /\ UNCHANGED <<clock, history_file, runVars, seedVars, histVars, fnVars, email, limit,
                   exclude_tracks, recent_tracks_list, seed_audio_features, gathered,
                   unique_recommendations, sorted_recommendations>>

NextDiscovery ==
    \/ GetRecentPlays
    \/ GetSavedTracks
    \/ GetPlaylistItems
    \/ GetSeedFeatures
    \/ SearchByArtists
    \/ SearchBySeedTracks
    \/ SearchByGenres
    \/ ScoreCandidates
    \/ MixFamiliar

SpecDiscovery == InitDiscoveryCall /\ [][NextDiscovery]_vars

\* the returned tracks whose id is in the exclusion set of the call
ExcludedPositions ==
    {i \in 1..Len(diverse_recommendations) :
        diverse_recommendations[i].id \in exclude_tracks}

\* C7 (as claimed): no returned track has an id of the recently played
\* tracks, the saved tracks or the tracks of the user's own playlists.
C7_NoExcludedTrackReturned ==
    (pc = "returned") => (ExcludedPositions = {})

\* C7 (amended): a returned track with an excluded id is a familiar track:
\* one of the first 20 recently played tracks, of popularity 40 to 85; such
\* tracks follow every track with an id outside the exclusion set, and
\* there are at most limit - int(0.85 * limit) of them.
C7_OnlyFamiliarTracksAreExcluded ==
    (pc = "returned") =>
        /\ \A i \in ExcludedPositions :
              /\ \E k \in 1..Min(20, Len(recent_tracks_list)) :
                    diverse_recommendations[i] = recent_tracks_list[k]
              /\ diverse_recommendations[i].popularity \in 40..85
              /\ \A j \in i..Len(diverse_recommendations) : j \in ExcludedPositions
        /\ Cardinality(ExcludedPositions) <= limit - ((limit * 85) \div 100)
C7_Witness ==
    /\ pc = "returned"
    /\ ExcludedPositions # {}
    /\ 1 \in 1..Len(diverse_recommendations) /\ 1 \notin ExcludedPositions
    /\ \E k \in 1..Len(recent_tracks_list) : recent_tracks_list[k].popularity \notin 40..85

\* C8: the pool of candidates holds no track with an excluded id and no id
\* twice, and for every id it holds the first track of that id that the
\* searches returned.
C8_PoolUniqueAndNotExcluded ==
    /\ \A i \in 1..Len(unique_recommendations) :
          /\ unique_recommendations[i].id \notin exclude_tracks
          /\ \E j \in 1..Len(gathered) :
                /\ gathered[j] = unique_recommendations[i]
                /\ \A k \in 1..(j - 1) : gathered[k].id # gathered[j].id
    /\ NoDuplicates(Ids(unique_recommendations))
C8_Witness ==
    /\ pc = "score"
    /\ exclude_tracks # {}
    /\ unique_recommendations # <<>>
    /\ \E i, j \in 1..Len(gathered) :
          /\ i < j
          /\ gathered[i].id = gathered[j].id
          /\ gathered[i] # gathered[j]

\* C9: a live run that reports success has appended exactly one record to
\* the history, carrying the created playlist's name and the ids of the
\* tracks added to it, in order.
C9_SuccessAppendsOneRecord ==
    (pc = "done" /\ result = "ok") =>
        LET before == _read_history(history_before)
            after == _read_history(history_file)
        IN /\ Len(after) = Len(before) + 1
           /\ SubSeq(after, 1, Len(before)) = before
           /\ after[Len(after)].name = remote[playlist.id].name
           /\ after[Len(after)].tracks = AddedIds

\* The mixer's pools are large enough: the ranked list has at least
\* floor(0.85 * limit) entries and the familiar pool at least
\* limit - floor(0.85 * limit).
PoolsLargeEnough ==
    /\ Len(sorted_recommendations) >= (limit * 85) \div 100
    /\ Len(FamiliarCandidates(recent_tracks_list)) >= limit - (limit * 85) \div 100

C18_BatchesConcatenateToInput ==
    [][(pc = "add" /\ playlist_tracks # <<>>) =>
          LET track_uris == TrackUris(playlist_tracks)
              before == remote[playlist.id].items
              after == remote'[playlist.id].items
              batch == SubSeq(after, Len(before) + 1, Len(after))
              raised == trace' # trace /\ trace'[Len(trace')] = "add:raised"
          IN /\ ~raised =>
                   /\ after = before \o batch
                   /\ Len(batch) >= 1 /\ Len(batch) <= 100
                   /\ after = SubSeq(track_uris, 1, Len(after))
                   /\ pc' \in {"add", "record"}
                   /\ (pc' = "add") <=> (Len(after) < Len(track_uris))
             /\ (pc' = "record") =>
                   /\ ~raised
                   /\ after = track_uris
                   /\ (Len(track_uris) <= 100) => (before = <<>> /\ batch_i = 0)
             /\ raised => (after = before /\ pc' = "done")]_vars
\* two write calls: 100 URIs, then the rest
C18_Witness ==
    /\ pc = "record"
    /\ Len(playlist_tracks) > chunk_size
    /\ batch_i = 2 * chunk_size
    /\ remote[playlist.id].items = TrackUris(playlist_tracks)
    /\ trace[Len(trace)] = "add:ok"

\* C20: the notification step decides nothing but the delivery.  Whatever
\* send_email does (sent, failed, or skipped for missing credentials), the
\* step leaves the remote playlists, the remote calls made and the history
\* file as they were, and the run reports the result its mode gives: the
\* dry-run report for a dry run, success for a live run.
C20_NotificationNeverChangesOutcome ==
    [][(pc \in {"dry", "notify"}) =>
          /\ email' \in EmailOutcomes
          /\ UNCHANGED <<remote, trace, history_file>>
          /\ result' = (IF pc = "dry" THEN "dry" ELSE "ok")
          /\ pc' = "done"]_vars
\* a live run whose email could not be delivered: it reports success and its
\* playlist and history record are in place
C20_Witness ==
    /\ pc = "done"
    /\ email = "failed"
    /\ result = "ok"
    /\ remote[playlist.id].items = TrackUris(playlist_tracks)
    /\ Len(_read_history(history_file)) = Len(_read_history(history_before)) + 1

\* C22: the exit status of a run that failed differs from the exit status a
\* run that succeeded (live or dry) ends with.
C22_ExitStatusReflectsOutcome ==
    (exit_status # <<>> /\ result = "failed") =>
        /\ exit_status # <<ExitStatus("ok")>>
        /\ exit_status # <<ExitStatus("dry")>>

\* The weight the specification gives a track id, times 2*N*M (N top tracks,
\* M recent tracks; an empty list counts as 1 in the factor and adds
\* nothing): (N-r)/N for each top track at 0-based rank r, half of (M-r)/M
\* for each recent track at rank r.
ClaimedWeight(id) ==
    LET N == Len(top_tracks)
        M == Len(recent_tracks)
        from_top == {r \in 0..(N - 1) : top_tracks[r + 1].id = id}
        from_recent == {r \in 0..(M - 1) : recent_tracks[r + 1].id = id}
        RECURSIVE Total(_, _)
        Total(S, scale) ==
            IF S = {} THEN 0
            ELSE LET r == CHOOSE x \in S : TRUE
                 IN scale[r] + Total(S \ {r}, scale)
    IN Total(from_top, [r \in 0..(N - 1) |-> 2 * Max(M, 1) * (N - r)])
       + Total(from_recent, [r \in 0..(M - 1) |-> Max(N, 1) * (M - r)])

\* C24: the seed tracks are max_seed_tracks of the listened track ids (all
\* of them when there are fewer), each of them once, in descending order of
\* accumulated weight, and no id left out weighs more than a chosen one;
\* one top track A and one recent track B give [A, B]; an empty top or
\* recent list is selected from like any other.
C24_SeedsByAccumulatedWeight ==
    (pc = "selected") =>
        LET ids == IdSet(top_tracks \o recent_tracks)
            n == Len(seed_tracks)
        IN /\ n = Min(seed_limits.max_seed_tracks, Cardinality(ids))
           /\ NoDuplicates(seed_tracks)
           /\ Range(seed_tracks) \subseteq ids
           /\ \A i, j \in 1..n :
                  i < j => ClaimedWeight(seed_tracks[i]) >= ClaimedWeight(seed_tracks[j])
           /\ \A id \in ids \ Range(seed_tracks) :
                  \A i \in 1..n : ClaimedWeight(seed_tracks[i]) >= ClaimedWeight(id)
           /\ (/\ Len(top_tracks) = 1 /\ Len(recent_tracks) = 1
               /\ top_tracks[1].id # recent_tracks[1].id
               /\ seed_limits.max_seed_tracks >= 2)
                 => (seed_tracks = <<top_tracks[1].id, recent_tracks[1].id>>)
\* a track of both lists whose summed weight puts it in front of a top track
\* listed before it
C24_Witness ==
    /\ pc = "selected"
    /\ Len(top_tracks) = 3 /\ NoDuplicates(Ids(top_tracks))
    /\ recent_tracks = <<top_tracks[3]>>
    /\ seed_tracks = <<top_tracks[1].id, top_tracks[3].id>>

(***************************************************************************)
(* SpecReads: one call of one read method of SpotifyAPI, with the catalog  *)
(* free to answer or to fail.                                              *)
(***************************************************************************)
MaxSeeds == 6

ReadMethods ==
    {"get_top_tracks", "get_recently_played_tracks",
     "get_discovery_recommendations", "get_recommendations_via_search",
     "get_recommendations", "get_playlist_tracks"}

\* the seed list of k entries
SeedList(k) == [i \in 1..k |-> i]

\* the items of a playlist: an item's track is None when the track is gone
PlaylistItemResponses ==
    {Fail,
     Ok(<<>>),
     Ok(<<[track |-> <<T(1)>>], [track |-> <<>>], [track |-> <<T(2)>>]>>)}

get_playlist_tracks_raises(response) ==
    IF response.ok
    THEN LET kept == SelectSeq(response.v, LAMBDA item : item.track # <<>>)
         IN [i \in 1..Len(kept) |-> kept[i].track[1]]
    ELSE <<"raised">>
\* lines 584-602: every page is fetched inside the try; a failure of any of
\* them gives []
get_playlist_tracks(response) ==
    IF response.ok
    THEN LET kept == SelectSeq(response.v, LAMBDA item : item.track # <<>>)
         IN [i \in 1..Len(kept) |-> kept[i].track[1]]
    ELSE <<>>

InitReadCall ==
    /\ pc = "call"
    /\ history_file = MissingFile
    /\ history_before = MissingFile
    /\ clock = 0
    /\ InitRun
    /\ seed_tracks \in {SeedList(k) : k \in 0..MaxSeeds}
    /\ seed_artists \in {SeedList(k) : k \in 0..MaxSeeds}
    /\ seed_genres \in {SeedList(k) : k \in 0..MaxSeeds}
    /\ method \in ReadMethods
    /\ sent_seeds = <<>>
    /\ remote_failed = FALSE
    /\ returned = <<>>
    /\ InitSeedArgs
    /\ InitScore
    /\ InitDiscovery
    /\ added = <<>>
    /\ completed = 0

\* what a call leaves alone
ReadCallUnchanged ==
    UNCHANGED <<clock, history_file, runVars, seedVars, discVars, histVars,
                seed_limits, method, seed_genres, candidate,
                candidate_features, final_score, auxVars, email>>

\* lines 107-132
CallGetTopTracks ==
    /\ pc = "call" /\ method = "get_top_tracks"
    /\ \E response \in TopResponses :
          /\ returned' = get_top_tracks(response)
          /\ remote_failed' = ~response.ok
    /\ pc' = "returned"
    /\ UNCHANGED sent_seeds
    /\ ReadCallUnchanged

\* lines 134-146
CallGetRecentlyPlayedTracks ==
    /\ pc = "call" /\ method = "get_recently_played_tracks"
    /\ \E response \in RecentResponses :
          /\ returned' = get_recently_played_tracks(response)
          /\ remote_failed' = ~response.ok
    /\ pc' = "returned"
    /\ UNCHANGED sent_seeds
    /\ ReadCallUnchanged

\* lines 208-449: the calls without a handler of their own are the fetch of
\* the recent plays and the listing of the playlists
CallGetDiscoveryRecommendations ==
    /\ pc = "call" /\ method = "get_discovery_recommendations"
    /\ \E env \in RunEnvs :
          \E choice \in FamiliarChoices(env.recent_plays.v, args.tracks * 2) :
             /\ returned' =
                    get_discovery_recommendations(seed_tracks, seed_artists,
                                                  args.tracks * 2, env, choice)
             /\ remote_failed' = (~env.recent_plays.ok \/ ~env.playlists.ok)
    /\ pc' = "returned"
    /\ UNCHANGED sent_seeds
    /\ ReadCallUnchanged

\* lines 168-206
CallGetRecommendationsViaSearch ==
    /\ pc = "call" /\ method = "get_recommendations_via_search"
    /\ \E response \in SearchResponses :
          /\ returned' =
                 get_recommendations_via_search(seed_tracks, seed_artists,
                                                args.tracks * 2, response)
          /\ remote_failed' = ~response.ok
    /\ pc' = "returned"
    /\ UNCHANGED sent_seeds
    /\ ReadCallUnchanged

\* lines 452-528: the seeds are trimmed (lines 482-497), then sent
CallGetRecommendations ==
    /\ pc = "call" /\ method = "get_recommendations"
    /\ sent_seeds' = TrimSeeds(seed_tracks, seed_artists, seed_genres)
    /\ \E response \in RecommendationResponses :
          /\ returned' =
                 get_recommendations(seed_tracks, seed_artists, seed_genres,
                                     args.tracks * 2, response)
          /\ remote_failed' = ~response.ok
    /\ pc' = "returned"
    /\ ReadCallUnchanged

\* lines 584-602
CallGetPlaylistTracks ==
    /\ pc = "call" /\ method = "get_playlist_tracks"
    /\ \E response \in PlaylistItemResponses :
          /\ returned' = get_playlist_tracks(response)
          /\ remote_failed' = ~response.ok
    /\ pc' = "returned"
    /\ UNCHANGED sent_seeds
    /\ ReadCallUnchanged

NextReads ==
    \/ CallGetTopTracks
    \/ CallGetRecentlyPlayedTracks
    \/ CallGetDiscoveryRecommendations
    \/ CallGetRecommendationsViaSearch
    \/ CallGetRecommendations
    \/ CallGetPlaylistTracks

SpecReads == InitReadCall /\ [][NextReads]_vars

\* C15: the seeds get_recommendations sends number at most five in total;
\* each sent list is a prefix of the list given; an artist seed is sent only
\* if every track seed was sent, a genre seed only if every artist seed was
\* sent; and five seeds or fewer are sent unchanged.
C15_SeedsTrimmedToFive ==
    (pc = "returned" /\ method = "get_recommendations") =>
        LET t == sent_seeds[1]
            a == sent_seeds[2]
            g == sent_seeds[3]
        IN /\ Len(t) + Len(a) + Len(g) <= 5
           /\ t = Take(seed_tracks, Len(t))
           /\ a = Take(seed_artists, Len(a))
           /\ g = Take(seed_genres, Len(g))
           /\ (a # <<>>) => (t = seed_tracks)
           /\ (g # <<>>) => (a = seed_artists)
           /\ (Len(seed_tracks) + Len(seed_artists) + Len(seed_genres) <= 5)
                 => (sent_seeds = <<seed_tracks, seed_artists, seed_genres>>)
C15_Witness ==
    /\ pc = "returned" /\ method = "get_recommendations"
    /\ Len(seed_tracks) = 3 /\ Len(seed_artists) = 3 /\ Len(seed_genres) = 2
    /\ sent_seeds = <<SeedList(3), SeedList(2), <<>> >>

\* C19: a read method whose remote call failed returned the empty list (it
\* did not raise).  For get_discovery_recommendations the remote calls meant
\* are those its outer handler covers: the calls with a handler of their own
\* only lose their own contribution.
C19_ReadsReturnEmptyOnFailure ==
    (pc = "returned" /\ remote_failed) => (returned = <<>>)
C19_Witness ==
    /\ pc = "returned"
    /\ remote_failed
    /\ method = "get_playlist_tracks"
    /\ returned = <<>>

(***************************************************************************)
(* SpecScore: the score get_discovery_recommendations gives one candidate  *)
(* (lines 375-403), for seed tracks with at least one feature vector.      *)
(***************************************************************************)
MaxSeedVectors == 2

\* popularity is 0..100, or absent
PopularityLevels == {NoPop, 0, 60, 100}
\* the ends of the range [0, 1] of an audio feature, as percentages
FeatureVectors == [Dimensions -> {0, 100}]

InitScoreCall ==
    /\ pc = "features"
    /\ history_file = MissingFile
    /\ history_before = MissingFile
    /\ clock = 0
    /\ InitRun
    /\ seed_tracks = <<>> /\ seed_artists = <<>>
    /\ limit = 0
    /\ exclude_tracks = {}
    /\ recent_tracks_list = <<>>
    /\ seed_audio_features \in UNION {[1..n -> FeatureVectors] : n \in 1..MaxSeedVectors}
    /\ gathered = <<>>
    /\ unique_recommendations = <<>>
    /\ sorted_recommendations = <<>>
    /\ diverse_recommendations = <<>>
    /\ InitSeedArgs
    /\ InitReads
    /\ candidate \in {Track(1, p) : p \in PopularityLevels}
    /\ candidate_features \in FeatureVectors \cup {NoVector}
    /\ final_score = 0
    /\ added = <<>>
    /\ completed = 0

\* lines 375-403: one turn of the loop over unique_recommendations
ScoreCandidate ==
    /\ pc = "features"
    /\ final_score' = FinalScore500n(candidate, candidate_features,
                                     seed_audio_features)
    /\ pc' = "scored"
    /\ UNCHANGED <<clock, history_file, runVars, seedVars, discVars, histVars,
                   seed_limits, method, seed_genres, sent_seeds, remote_failed,
                   returned, candidate, candidate_features, auxVars, email>>

NextScore == ScoreCandidate

SpecScore == InitScoreCall /\ [][NextScore]_vars

\* C16: the final score of a candidate lies in [0, 1] (final_score holds 500*n
\* times the score, n the number of seed vectors), whatever the candidate's
\* popularity in 0..100 or its absence, whatever the feature values in
\* [0, 1], and whether or not the candidate has a feature vector.
C16_FinalScoreInUnitInterval ==
    (pc = "scored") =>
        /\ 0 <= final_score
        /\ final_score <= 500 * Len(seed_audio_features)
\* a candidate of popularity 60 whose vector equals the seeds' average: score 1
C16_Witness ==
    /\ pc = "scored"
    /\ candidate.popularity = 60
    /\ candidate_features # NoVector
    /\ Similarity400n(candidate_features, seed_audio_features)
          = 400 * Len(seed_audio_features)
    /\ final_score = 500 * Len(seed_audio_features)

(***************************************************************************)
(* SpecModes: generate_playlist up to its dry-run branch (main.py lines    *)
(* 46-125), run twice on the same catalog answers, history file, clock and *)
(* random choice: once live, once with --dry-run.                          *)
(***************************************************************************)
RecommendationLimit_dry_halved(a) == IF a.dry_run THEN a.tracks ELSE a.tracks * 2
\* lines 72, 80, 89: limit=args.tracks * 2
RecommendationLimit(a) == a.tracks * 2

\* lines 68-97: discovery, then the search fallback, then the
\* recommendations fallback, each tried when the one before gave nothing
Cascade(a, seeds, artists, env, choice, search, recs) ==
    LET d == get_discovery_recommendations(seeds, artists, RecommendationLimit(a),
                                           env, choice)
        s == IF d # <<>> THEN d
             ELSE get_recommendations_via_search(seeds, artists,
                                                 RecommendationLimit(a), search)
    IN IF s # <<>> THEN s
       ELSE get_recommendations(seeds, artists, <<>>, RecommendationLimit(a), recs)

\* lines 52-125: what the run has computed when it reaches line 125, or
\* when it returns None before that
Pipeline(a, top, recent, env, choice, search, recs, readable) ==
    LET top_ == get_top_tracks(top)
        recent_ == get_recently_played_tracks(recent)
        s == select_seed_tracks_and_artists(top_, recent_, 3, 2)
        r == Cascade(a, s[1], s[2], env, choice, search, recs)
        previous == get_recent_track_ids(history_file, 1)
        filtered == filter_tracks(r, previous)
        nothing == [outcome |-> "failed", seed_tracks |-> <<>>,
                    seed_artists |-> <<>>, recommendations |-> <<>>,
                    playlist_tracks |-> <<>>]
    IN IF NoListeningData(top_, recent_) THEN nothing
       ELSE IF r = <<>>
            THEN [nothing EXCEPT !.seed_tracks = s[1], !.seed_artists = s[2]]
       ELSE IF ~readable
            THEN [nothing EXCEPT !.seed_tracks = s[1], !.seed_artists = s[2],
                                 !.recommendations = r]
       ELSE [outcome |-> IF DryRun(a) THEN "dry" ELSE "create",
             seed_tracks |-> s[1],
             seed_artists |-> s[2],
             recommendations |-> r,
             playlist_tracks |-> PlaylistTracks(filtered, r, a.tracks)]

\* the catalog's answers to the two runs: the discovery answers in which no
\* playlist is excluded and the genre searches find nothing, and the
\* fallbacks' answers short of the bulk list
ModeEnvs == {e \in RunEnvs : e.saved.ok /\ e.playlists.v = <<>> /\ e.stage3 = <<>>}
ModeRecommendations == {r \in RecommendationResponses : Len(r.v) <= MaxTracks}

InitModes ==
    /\ pc = "modes"
    /\ InitStore
    /\ Len(history_file.data) <= 1
    /\ args \in {a \in Args : ~a.dry_run /\ a.tracks <= MaxTracks}
    /\ remote = <<>> /\ trace = <<>>
    /\ top_tracks = <<>> /\ recent_tracks = <<>>
    /\ recommendations = <<>>
    /\ previous_track_ids = {}
    /\ filtered_tracks = <<>> /\ playlist_tracks = <<>>
    /\ playlist_name = None
    /\ playlist = NoPlaylist
    /\ batch_i = 0
    /\ result = "none"
    /\ email = "none"
    /\ twin = <<>>
    /\ exit_status = <<>>
    /\ stages_entered = <<>>
    /\ fetched = <<>>
    /\ callers = <<>>
    /\ seed_tracks = <<>> /\ seed_artists = <<>>
    /\ InitDiscovery
    /\ InitFunctions
    /\ added = <<>>
    /\ completed = 0

\* The live run fills the run's variables, the dry run fills twin.  The two
\* runs get the same random choice whenever they sample from the same
\* population with the same size.
RunBothModes ==
    /\ pc = "modes"
    /\ \E top \in TopResponses, recent \in RecentResponses, env \in ModeEnvs,
          search \in SearchResponses, recs \in ModeRecommendations,
          readable \in BOOLEAN :
          LET dry == [args EXCEPT !.dry_run = TRUE]
              live_choices == FamiliarChoices(env.recent_plays.v,
                                              RecommendationLimit(args))
              dry_choices == FamiliarChoices(env.recent_plays.v,
                                             RecommendationLimit(dry))
          IN \E choice \in live_choices, dry_choice \in dry_choices :
                /\ (live_choices = dry_choices) => (dry_choice = choice)
                /\ LET live_run == Pipeline(args, top, recent, env, choice,
                                            search, recs, readable)
                   IN /\ seed_tracks' = live_run.seed_tracks
                      /\ seed_artists' = live_run.seed_artists
                      /\ recommendations' = live_run.recommendations
                      /\ playlist_tracks' = live_run.playlist_tracks
                      /\ result' = live_run.outcome
                /\ twin' = Pipeline(dry, top, recent, env, dry_choice,
                                    search, recs, readable)
    /\ pc' = "compared"
    /\ UNCHANGED <<clock, history_file, args, history_before, remote, trace,
                   top_tracks, recent_tracks, previous_track_ids,
                   filtered_tracks, playlist_name, playlist, batch_i, discVars,
                   histVars, seed_limits, method, seed_genres, sent_seeds,
                   remote_failed, returned, candidate, candidate_features,
                   final_score, exit_status, callers, stages_entered, fetched,
                   email>>

NextModes == RunBothModes

SpecModes == InitModes /\ [][NextModes]_vars

\* C21: on the same catalog answers, history, arguments and random choice, a
\* dry run and a live run select the same seed tracks and seed artists, get
\* the same recommendations and build the same playlist tracks (same ids in
\* the same order); they fail together, and otherwise differ only in the
\* branch taken at the create step.
C21_DryRunSelectsWhatLiveRunSelects ==
    (pc = "compared") =>
        /\ twin.seed_tracks = seed_tracks
        /\ twin.seed_artists = seed_artists
        /\ Ids(twin.recommendations) = Ids(recommendations)
        /\ Ids(twin.playlist_tracks) = Ids(playlist_tracks)
        /\ (twin.outcome = "failed") <=> (result = "failed")
        /\ (twin.outcome = "dry") <=> (result = "create")
\* both runs reached the branch with seeds and two or more playlist tracks
C21_Witness ==
    /\ pc = "compared"
    /\ result = "create" /\ twin.outcome = "dry"
    /\ seed_tracks # <<>>
    /\ Len(playlist_tracks) >= 2
    /\ twin.playlist_tracks = playlist_tracks

(***************************************************************************)
(* SpecConcurrent: two add_playlist calls on one history file, from two    *)
(* processes; each call reads the file (line 42) and later writes it       *)
(* (line 57), and the steps of the two calls interleave freely.            *)
(***************************************************************************)
Callers == {1, 2}

WrittenList_reread(read, file) == _read_history(file)
\* lines 42-57: the list written is the list read at line 42, with the new
\* entry appended; the file is not read again
WrittenList(read, file) == read

InitConcurrent ==
    /\ pc = "calls"
    /\ InitStore
    /\ args = [tracks |-> 1, dry_run |-> FALSE, name |-> None]
    /\ remote = <<>> /\ trace = <<>>
    /\ top_tracks = <<>> /\ recent_tracks = <<>>
    /\ recommendations = <<>>
    /\ previous_track_ids = {}
    /\ filtered_tracks = <<>> /\ playlist_tracks = <<>>
    /\ playlist_name = None
    /\ playlist = NoPlaylist
    /\ batch_i = 0
    /\ result = "none"
    /\ email = "none"
    /\ twin = <<>>
    /\ exit_status = <<>>
    /\ stages_entered = <<>>
    /\ fetched = <<>>
    /\ callers \in [Callers -> [pc : {"read"}, history : {<<>>}, entry : {<<>>},
                                name : PlaylistNames, tracks : PriorTrackLists,
                                wrote : {"no"}]]
    /\ seed_tracks = <<>> /\ seed_artists = <<>>
    /\ InitDiscovery
    /\ InitFunctions
    /\ added = <<>>
    /\ completed = 0

ConcurrentUnchanged ==
    UNCHANGED <<pc, clock, runVars, seedVars, discVars, histVars, seed_limits,
                method, seed_genres, sent_seeds, remote_failed, returned,
                candidate, candidate_features, final_score, twin, exit_status,
                stages_entered, fetched, email>>

\* lines 42-53: a caller reads the history and builds its entry
ReadHistory ==
    /\ pc = "calls"
    /\ \E i \in Callers :
          /\ callers[i].pc = "read"
          /\ callers' = [callers EXCEPT
                 ![i].pc = "write",
                 ![i].history = _read_history(history_file),
                 ![i].entry = playlist_entry(i, callers[i].name, callers[i].tracks,
                                             [seed_tracks |-> <<>>,
                                              seed_artists |-> <<>>,
                                              filter_count |-> 0],
                                             clock)]
    /\ UNCHANGED history_file
    /\ ConcurrentUnchanged

\* lines 55-57: the caller appends its entry to the list it read and writes
\* the list
WriteHistory ==
    /\ pc = "calls"
    /\ \E i \in Callers, w \in WriteOutcomes :
          /\ callers[i].pc = "write"
          /\ history_file' =
                 _write_history(history_file,
                                Append(WrittenList(callers[i].history, history_file),
                                       callers[i].entry),
                                w)
          /\ callers' = [callers EXCEPT ![i].pc = "done", ![i].wrote = w]
    /\ ConcurrentUnchanged

NextConcurrent ==
    \/ ReadHistory
    \/ WriteHistory

SpecConcurrent == InitConcurrent /\ [][NextConcurrent]_vars

\* both calls have completed, their writes succeeded, and each had read the
\* file before the other wrote it
BothCompletedInterleaved ==
    /\ \A i \in Callers : callers[i].pc = "done" /\ callers[i].wrote = "ok"
    /\ \A i \in Callers : callers[i].history = _read_history(history_before)

\* C23: when the read and write steps of two add_playlist calls interleave
\* (each call reads before the other writes) and both calls complete, the
\* stored history is the list read plus one new record: one of the two new
\* records is lost, the last write wins.
C23_InterleavedCallsLoseAnUpdate ==
    BothCompletedInterleaved =>
        LET before == _read_history(history_before)
            stored == _read_history(history_file)
        IN /\ Len(stored) = Len(before) + 1
           /\ SubSeq(stored, 1, Len(before)) = before
           /\ \E i \in Callers : stored[Len(stored)] = callers[i].entry
\* the lost update: a history of one earlier record, two calls with
\* different entries completed, and only the second call's record stored
C23_Witness ==
    /\ BothCompletedInterleaved
    /\ Len(_read_history(history_before)) = 1
    /\ Len(_read_history(history_file)) = 2
    /\ callers[1].entry # callers[2].entry
    /\ _read_history(history_file)[2] = callers[2].entry
    /\ \A k \in 1..2 : _read_history(history_file)[k] # callers[1].entry

\* C25: with n >= 1 seed vectors, a candidate with a feature vector scores
\* 0.8 * similarity + 0.2 * popularity_score for every similarity in [0, 1],
\* and a candidate without one scores popularity_score (final_score holds
\* 500 * n times the score).
C25_WeightedScoreForEverySimilarity ==
    (pc = "scored") =>
        final_score =
            IF candidate_features # NoVector
            THEN Similarity400n(candidate_features, seed_audio_features)
                 + Len(seed_audio_features) * PopularityScore100(candidate)
            ELSE 5 * Len(seed_audio_features) * PopularityScore100(candidate)

\* C26: when no seed track has a feature vector, the ranked list is the pool
\* in descending order of the popularity-centred score 1 - |popularity -
\* 60| / 100 (popularity 50 when absent), candidates of equal score in pool
\* order; so a candidate of popularity 60 comes before every candidate of
\* popularity 0 or 100.
C26_RankedByPopularityAlone ==
    (pc = "mix" /\ seed_audio_features = <<>>) =>
        LET pool == unique_recommendations
            ranked == sorted_recommendations
            n == Len(ranked)
            Distance(t) == Abs((IF t.popularity = NoPop THEN 50 ELSE t.popularity) - 60)
            PoolPosition(t) == CHOOSE i \in 1..Len(pool) : pool[i] = t
        IN /\ n = Len(pool)
           /\ Range(ranked) = Range(pool)
           /\ \A i, j \in 1..n :
                  i < j =>
                     \/ Distance(ranked[i]) < Distance(ranked[j])
                     \/ /\ Distance(ranked[i]) = Distance(ranked[j])
                        /\ PoolPosition(ranked[i]) < PoolPosition(ranked[j])
           /\ \A i, j \in 1..n :
                  (ranked[i].popularity = 60 /\ ranked[j].popularity \in {0, 100})
                     => i < j
\* a pool that lists a candidate of popularity 100 before one of popularity
\* 60 and holds one of popularity 0: the one of popularity 60 is ranked first
C26_Witness ==
    /\ pc = "mix" /\ seed_audio_features = <<>>
    /\ \E i, j, k \in 1..Len(unique_recommendations) :
          /\ i < k
          /\ unique_recommendations[i].popularity = 100
          /\ unique_recommendations[j].popularity = 0
          /\ unique_recommendations[k].popularity = 60
    /\ sorted_recommendations # unique_recommendations
    /\ sorted_recommendations[1].popularity = 60

\* C27: when the familiar pool is empty, the mixer's output is the first
\* limit entries of the ranked list (all of them when there are fewer), not
\* only the first floor(0.85 * limit).
C27_EmptyPoolFallsBackToTopLimit ==
    [][(pc = "mix" /\ pc' = "returned"
        /\ FamiliarCandidates(recent_tracks_list) = <<>>)
          => (diverse_recommendations' = Take(sorted_recommendations, limit))]_vars

\* C28 as stated: stage 2 and stage 3 are each entered exactly when fewer
\* than 2 * limit candidates have been collected so far.
C28_OneTargetForBothStages ==
    [][/\ (pc = "stage2") =>
             (("stage2" \in Range(stages_entered')) <=> (Len(gathered) < 2 * limit))
       /\ (pc = "stage3") =>
             (("stage3" \in Range(stages_entered')) <=> (Len(gathered) < 2 * limit))]_vars

\* C28 as the code has it: stage 2 is entered exactly when there are seed
\* tracks and fewer than 2 * limit candidates so far; stage 3 exactly when
\* there are fewer than limit candidates so far.
C28_TwoTargets ==
    [][/\ (pc = "stage2") =>
             (("stage2" \in Range(stages_entered'))
                 <=> (seed_tracks # <<>> /\ Len(gathered) < 2 * limit))
       /\ (pc = "stage3") =>
             (("stage3" \in Range(stages_entered')) <=> (Len(gathered) < limit))]_vars
\* stage 2 was entered and stage 3 was not, with at least limit and fewer
\* than 2 * limit candidates collected
C28_Witness ==
    /\ pc = "score"
    /\ stages_entered = <<"stage2">>
    /\ Len(gathered) >= limit
    /\ Len(gathered) < 2 * limit

\* C29: a failure to fetch the saved tracks, or the items of one of the
\* user's own playlists, does not abort the call.  After the saved-tracks
\* step the call goes on to the playlists, and after a playlist listing that
\* succeeded it goes on to gather candidates; the exclusion set holds every
\* recently played id, every saved id when that fetch succeeded, and the ids
\* of every own playlist whose items were fetched, those listed after a
\* failing playlist included.
C29_ExclusionSetSurvivesFailures ==
    /\ [](/\ (Len(fetched) >= 1) =>
                /\ IdSet(recent_tracks_list) \subseteq exclude_tracks
                /\ (fetched[1].ok => (Range(fetched[1].v) \subseteq exclude_tracks))
          /\ (Len(fetched) = 2 /\ fetched[2].ok) =>
                \A i \in 1..Len(fetched[2].v) :
                   (fetched[2].v[i].own /\ fetched[2].v[i].items.ok)
                      => (Range(fetched[2].v[i].items.v) \subseteq exclude_tracks))
    /\ [][/\ (pc = "saved_tracks") => (pc' = "playlists")
          /\ (pc = "playlists" /\ fetched'[2].ok) => (pc' = "seed_features")]_vars
\* the saved tracks and the first own playlist could not be fetched; the
\* second playlist's track is excluded and the searches have been made
C29_Witness ==
    /\ pc = "score"
    /\ Len(fetched) = 2
    /\ ~fetched[1].ok
    /\ fetched[2].ok /\ Len(fetched[2].v) = 2
    /\ ~fetched[2].v[1].items.ok
    /\ recent_tracks_list # <<>>
    /\ exclude_tracks = IdSet(recent_tracks_list) \cup Range(fetched[2].v[2].items.v)
    /\ gathered # <<>>

(***************************************************************************)
(* C30: the final track list of a run never holds the same track id twice. *)
(***************************************************************************)
\* C30: in every state of a run no two entries of the final track list
\* (the list that is added to the playlist, or reported by a dry run) have the
\* same track id
C30_FinalTracksHaveDistinctIds == NoDuplicates(Ids(playlist_tracks))

====
